---------------------------- MODULE Spec2Model ----------------------------
(***************************************************************************)
(* A model of dunes-cli's wallet core (src/lib/crypto/wallet.ts) and of    *)
(* the etching wizard (the Etch command).                                  *)
(*                                                                         *)
(* JavaScript strings are sequences of code points, Buffers are sequences  *)
(* of bytes (0..255) and hex strings are sequences of one-character        *)
(* strings.  The third-party primitives the wallet calls (scrypt,          *)
(* AES-256-GCM, PBKDF2, HMAC-SHA512, SHA-256, secp256k1) are replaced by    *)
(* small stand-ins that keep the structure the wallet relies on: digests   *)
(* are weighted sums in two prime fields, the curve is the cyclic group of       *)
(* integers modulo GroupOrder with the generator 1.                        *)
(***************************************************************************)
EXTENDS Integers, Sequences, FiniteSets, TLC

VARIABLES
    network,    \* NETWORK, the configured network ("bitcoin" or "testnet")
    enc,        \* the EncryptedMnemonic at rest (None before any encryption)
    encIn,      \* the arguments and the buffers of the encryption that made enc
    dec,        \* what the last decryptWalletWithPassword did
    decIn,      \* the password given to that decryption
    gw,         \* what the last generateWallet did
    gwIn,       \* its options
    unlocked,   \* what decrypting gw's saved wallet did
    valid,      \* what the last isValidMnemonic did
    validIn,    \* its candidate and what bip39 did
    signer,     \* the WalletSigner the transaction builder holds
    addr,       \* firstTaprootAddress(signer)
    wit,        \* getWitnessUtxo(utxo, signer)
    tsigner,    \* toTaprootSigner(signer)
    sig,        \* the last signature made with tsigner
    calls,      \* the last invocation of each of two independent callers
    idx,        \* promptLoop: the step index
    state,      \* promptLoop: the collected answers
    pc,         \* the wizard's position: "loop", "built"
    answer,     \* promptLoop: answer[step] of the last iteration
    asked,      \* the step the last iteration prompted ("none": skipped by when)
    lastAns,    \* the last answer the user gave to each gating question
    etching     \* the etching run builds from the answers

vars == <<network, enc, encIn, dec, decIn, gw, gwIn, unlocked, valid, validIn,
          signer, addr, wit, tsigner, sig, calls,
          idx, state, pc, answer, asked, lastAns, etching>>

cipherVars == <<enc, encIn, dec, decIn>>
walletVars == <<gw, gwIn, unlocked, valid, validIn>>
keyVars    == <<signer, addr, wit, tsigner, sig>>
etchVars   == <<idx, state, pc, answer, asked, lastAns, etching>>

None == [none |-> TRUE]

-----------------------------------------------------------------------------
(* Sequences and bytes *)

Repeat(x, n) == [i \in 1..n |-> x]

\* The concatenation and the sum of ss[lo..hi], by halves.
RECURSIVE ConcatRange(_, _, _)
ConcatRange(ss, lo, hi) ==
    IF lo > hi THEN <<>>
    ELSE IF lo = hi THEN ss[lo]
    ELSE LET mid == (lo + hi) \div 2
         IN ConcatRange(ss, lo, mid) \o ConcatRange(ss, mid + 1, hi)

Concat(ss) == ConcatRange(ss, 1, Len(ss))

RECURSIVE SumRange(_, _, _)
SumRange(s, lo, hi) ==
    IF lo > hi THEN 0
    ELSE IF lo = hi THEN s[lo]
    ELSE LET mid == (lo + hi) \div 2
         IN SumRange(s, lo, mid) + SumRange(s, mid + 1, hi)

SumSeq(s) == SumRange(s, 1, Len(s))

Min(S) == CHOOSE m \in S : \A k \in S : m <= k

Take(s, n) == SubSeq(s, 1, IF n < Len(s) THEN n ELSE Len(s))

-----------------------------------------------------------------------------
(* Buffer.from(str, "utf8") and buf.toString("utf8") *)

ReplacementChar == <<239, 191, 189>>    \* U+FFFD encoded

Utf8OfCodePoint(cp) ==
    IF cp < 128 THEN <<cp>>
    ELSE IF cp < 2048 THEN <<192 + (cp \div 64), 128 + (cp % 64)>>
    ELSE IF cp >= 55296 /\ cp <= 57343 THEN ReplacementChar   \* lone surrogate
    ELSE <<224 + (cp \div 4096), 128 + ((cp \div 64) % 64), 128 + (cp % 64)>>

Utf8Encode(str) == Concat([i \in 1..Len(str) |-> Utf8OfCodePoint(str[i])])

IsCont(bytes, i) == i <= Len(bytes) /\ bytes[i] >= 128 /\ bytes[i] < 192

\* Whether a well-formed two- or three-byte character starts at i.
Lead2(bytes, i) ==
    i >= 1 /\ i <= Len(bytes) /\ bytes[i] >= 194 /\ bytes[i] < 224 /\ IsCont(bytes, i + 1)

Lead3(bytes, i) ==
    /\ i >= 1 /\ i <= Len(bytes) /\ bytes[i] >= 224 /\ bytes[i] < 240
    /\ IsCont(bytes, i + 1) /\ IsCont(bytes, i + 2)
    /\ (bytes[i] - 224) * 4096 + (bytes[i + 1] - 128) * 64 >= 2048

\* What the decoder emits at byte i: a character where one starts, nothing
\* for a continuation byte of a character, U+FFFD for any other byte.
Utf8DecodeAt(bytes, i) ==
    LET b == bytes[i] IN
    IF b < 128 THEN <<b>>
    ELSE IF Lead2(bytes, i) THEN <<(b - 192) * 64 + (bytes[i + 1] - 128)>>
    ELSE IF Lead3(bytes, i)
    THEN <<(b - 224) * 4096 + (bytes[i + 1] - 128) * 64 + (bytes[i + 2] - 128)>>
    ELSE IF IsCont(bytes, i)
            /\ (Lead2(bytes, i - 1) \/ Lead3(bytes, i - 1) \/ Lead3(bytes, i - 2))
    THEN <<>>
    ELSE <<65533>>

\* Mutant: buf.toString("latin1"), one character per byte.
Latin1Decode(bytes) == bytes

Utf8Decode(bytes) == Concat([i \in 1..Len(bytes) |-> Utf8DecodeAt(bytes, i)])

-----------------------------------------------------------------------------
(* buf.toString("hex") and Buffer.from(str, "hex") *)

HexDigits == <<"0", "1", "2", "3", "4", "5", "6", "7",
               "8", "9", "a", "b", "c", "d", "e", "f">>

UpperHex == <<"A", "B", "C", "D", "E", "F">>

ToHex(bytes) ==
    [j \in 1..(2 * Len(bytes)) |->
        IF j % 2 = 1 THEN HexDigits[(bytes[(j + 1) \div 2] \div 16) + 1]
        ELSE HexDigits[(bytes[j \div 2] % 16) + 1]] \o <<>>

\* The value of a hex digit of either case; -1 for any other character.
HexVal(c) ==
    IF \E k \in 1..16 : HexDigits[k] = c
    THEN (CHOOSE k \in 1..16 : HexDigits[k] = c) - 1
    ELSE IF \E k \in 1..6 : UpperHex[k] = c
    THEN (CHOOSE k \in 1..6 : UpperHex[k] = c) + 9
    ELSE -1

\* Node decodes pairs of digits and stops at the first pair that is not hex;
\* a trailing single character is dropped.
FromHex(hex) ==
    LET pairs == Len(hex) \div 2
        bad   == {k \in 1..pairs : HexVal(hex[2 * k - 1]) < 0 \/ HexVal(hex[2 * k]) < 0}
        n     == IF bad = {} THEN pairs ELSE Min(bad) - 1
    IN [k \in 1..n |-> HexVal(hex[2 * k - 1]) * 16 + HexVal(hex[2 * k])] \o <<>>

-----------------------------------------------------------------------------
(* The stand-in for the hash functions: two weighted sums of the bytes in   *)
(* prime fields, and the expansion of the two residues into as many bytes   *)
(* as the primitive returns.  The first four bytes hold both residues.      *)

\* Two weighted sums of the bytes, each in a prime field.
Digest(bytes) ==
    << (7 + SumSeq([i \in 1..Len(bytes) |-> (bytes[i] + 1) * (i * i + 3 * i + 1)]))
          % 46337,
       (11 + SumSeq([i \in 1..Len(bytes) |-> (bytes[i] + 1) * (7 * i + 5)]))
          % 46327 >>

Expand(d, len) ==
    [i \in 1..len |->
        IF i = 1 THEN d[1] \div 256
        ELSE IF i = 2 THEN d[1] % 256
        ELSE IF i = 3 THEN d[2] \div 256
        ELSE IF i = 4 THEN d[2] % 256
        ELSE (d[1] * i + d[2] * (i + 1) + i) % 256]

\* A length-prefixed concatenation, so that (x, y) is read back unambiguously.
Framed(parts) ==
    Concat([k \in 1..Len(parts) |-> <<Len(parts[k]) % 256>> \o parts[k]])

Hash(parts, len) == Expand(Digest(Framed(parts)), len) \o <<>>

-----------------------------------------------------------------------------
(* Text *)

Ascii_abandon == <<97, 98, 97, 110, 100, 111, 110>>
Ascii_ability == <<97, 98, 105, 108, 105, 116, 121>>
Ascii_able    == <<97, 98, 108, 101>>
Ascii_about   == <<97, 98, 111, 117, 116>>
Ascii_art     == <<97, 114, 116>>
Ascii_wrong   == <<119, 114, 111, 110, 103>>
Ascii_zoo     == <<122, 111, 111>>
Ascii_mnemonic     == <<109, 110, 101, 109, 111, 110, 105, 99>>
Ascii_Bitcoin_seed == <<66, 105, 116, 99, 111, 105, 110, 32, 115, 101, 101, 100>>
Ascii_TapTweak     == <<84, 97, 112, 84, 119, 101, 97, 107>>

Join(words) ==
    Concat([k \in 1..Len(words) |-> IF k = 1 THEN words[k] ELSE <<32>> \o words[k]])

\* str.split(" "): the empty string splits into one empty word.
Split(str) ==
    LET spaces == {i \in 1..Len(str) : str[i] = 32}
        \* the k-th word starts after the (k-1)-th space and ends before the k-th
        starts == {1} \cup {i + 1 : i \in spaces}
        EndOf(b) == IF \E i \in spaces : i >= b
                    THEN Min({i \in spaces : i >= b}) - 1 ELSE Len(str)
        Nth(k) == CHOOSE b \in starts : Cardinality({c \in starts : c < b}) = k - 1
    IN [k \in 1..Cardinality(starts) |-> SubSeq(str, Nth(k), EndOf(Nth(k)))]

\* str.normalize("NFKD"): of the model's characters only U+00E9 decomposes.
Nfkd(str) ==
    Concat([i \in 1..Len(str) |-> IF str[i] = 233 THEN <<101, 769>> ELSE <<str[i]>>])

-----------------------------------------------------------------------------
(* Results of calls that may throw *)

Return(v) == [ok |-> TRUE, val |-> v]
Throw(e)  == [ok |-> FALSE, err |-> e]

-----------------------------------------------------------------------------
(* bip39 *)

\* An excerpt of the English wordlist, each word with its index.
Wordlist ==
    { [w |-> Ascii_abandon, i |-> 0], [w |-> Ascii_ability, i |-> 1],
      [w |-> Ascii_able, i |-> 2], [w |-> Ascii_about, i |-> 3],
      [w |-> Ascii_art, i |-> 102], [w |-> Ascii_wrong, i |-> 2037],
      [w |-> Ascii_zoo, i |-> 2047] }

WordIndex(w) ==
    IF \E e \in Wordlist : e.w = w
    THEN (CHOOSE e \in Wordlist : e.w = w).i
    ELSE -1

WordAt(i) == (CHOOSE e \in Wordlist : e.i = i).w

RECURSIVE Pow2(_)
Pow2(k) == IF k = 0 THEN 1 ELSE 2 * Pow2(k - 1)

\* The k low bits of v, most significant first.
IntToBits(v, k) == [j \in 1..k |-> (v \div Pow2(k - j)) % 2]

BitsToInt(bits) ==
    SumSeq([j \in 1..Len(bits) |-> bits[j] * Pow2(Len(bits) - j)])

BytesToBits(bytes) == Concat([k \in 1..Len(bytes) |-> IntToBits(bytes[k], 8)])

BitsToBytes(bits) ==
    [k \in 1..(Len(bits) \div 8) |-> BitsToInt(SubSeq(bits, 8 * k - 7, 8 * k))]

\* The first byte of SHA-256 of the entropy.  The stand-in agrees with
\* SHA-256 on the published vectors (16 zero bytes: 0x37, 32 zero bytes: 0x66,
\* 16 bytes 0xff: 0x57).
Sha256Byte0(entropy) ==
    (55 + 47 * ((Len(entropy) - 16) \div 16) + 254 * SumSeq(entropy)) % 256

deriveChecksumBits(entropy) ==
    SubSeq(IntToBits(Sha256Byte0(entropy), 8), 1, (Len(entropy) * 8) \div 32)

mnemonicToEntropy(mnemonic) ==
    LET words == Split(Nfkd(mnemonic)) IN
    IF Len(words) % 3 # 0 THEN Throw("Invalid mnemonic")
    ELSE IF \E k \in 1..Len(words) : WordIndex(words[k]) = -1
    THEN Throw("Invalid mnemonic")
    ELSE LET bits == Concat([k \in 1..Len(words) |-> IntToBits(WordIndex(words[k]), 11)])
             dividerIndex == (Len(bits) \div 33) * 32
             entropyBits  == SubSeq(bits, 1, dividerIndex)
             checksumBits == SubSeq(bits, dividerIndex + 1, Len(bits))
             entropy      == BitsToBytes(entropyBits)
         IN IF Len(entropy) < 16 \/ Len(entropy) > 32 \/ Len(entropy) % 4 # 0
            THEN Throw("Invalid entropy")
            ELSE IF deriveChecksumBits(entropy) # checksumBits
            THEN Throw("Invalid mnemonic checksum")
            ELSE Return(entropy)

entropyToMnemonic(entropy) ==
    LET bits == BytesToBits(entropy) \o deriveChecksumBits(entropy)
    IN Join([k \in 1..(Len(bits) \div 11) |->
                WordAt(BitsToInt(SubSeq(bits, 11 * k - 10, 11 * k)))])

\* bip39.generateMnemonic(strength): rng is what randomBytes delivered, or
\* "throw" when the random source failed.
generateMnemonic(strength, rng) ==
    IF rng = <<>> THEN Throw("rng failed")
    ELSE Return(entropyToMnemonic(rng))

\* bip39.validateMnemonic(mnemonic); fault: the library call itself throws.
validateMnemonic(mnemonic, fault) ==
    IF fault THEN Throw("fault")
    ELSE Return(mnemonicToEntropy(mnemonic).ok)

mnemonicToSeedSync(mnemonic) ==
    Hash(<<<<3>>, Utf8Encode(Nfkd(mnemonic)), Utf8Encode(Ascii_mnemonic)>>, 64)

-----------------------------------------------------------------------------
(* The curve: the cyclic group of integers modulo GroupOrder, generator 1. *)
(* A point is the scalar that makes it (0: the point at infinity).  P and  *)
(* -P share their x coordinate; of the two, the one in the lower half has  *)
(* the even y.                                                             *)

HalfOrder == 6

GroupOrder == 2 * HalfOrder + 1

pointFromScalar(d) == d % GroupOrder

HasEvenY(P) == P <= HalfOrder

XOf(P) == IF P <= HalfOrder THEN P ELSE GroupOrder - P

privateNegate(d) == (GroupOrder - d) % GroupOrder

\* A 32-byte big-endian number below 256, and back.
Ser256(x) == [i \in 1..32 |-> IF i = 32 THEN x ELSE 0]

Parse256(bytes) == bytes[Len(bytes)]

\* The point with even y whose x coordinate is given.
liftX(xOnly) == Parse256(xOnly)

\* The 33-byte compressed encoding of a point.
pointCompress(P) == <<IF HasEvenY(P) THEN 2 ELSE 3>> \o Ser256(XOf(P))

\* A scalar read from a hash.
ScalarOf(h) == (h[1] * 256 + h[2]) % GroupOrder

\* bitcoinjs-lib/src/psbt/bip371
toXOnly(pubKey) == IF Len(pubKey) = 32 THEN pubKey ELSE SubSeq(pubKey, 2, 33)

taggedHash(tag, msg) == Hash(<<<<5>>, tag, msg>>, 32)

\* ecc.xOnlyPointAddTweak: null when the sum is the point at infinity.
xOnlyPointAddTweak(xOnly, tweak) ==
    LET Q == (liftX(xOnly) + ScalarOf(tweak)) % GroupOrder
    IN IF Q = 0 THEN Throw("null")
       ELSE Return([parity |-> IF HasEvenY(Q) THEN 0 ELSE 1,
                    xOnlyPubkey |-> Ser256(XOf(Q))])

-----------------------------------------------------------------------------
(* bip32 *)

Callers == {1, 2}      \* independent tasks that invoke the operations

\* Mutant: the path kept in a variable the invocations advance.
PathPerCall == <<86, 0, Cardinality({c \in Callers : calls[c].res # None})>>

PATH == <<86, 0, 0>>    \* m/86'/0'/0': three hardened steps

HmacSha512(key, data) == Hash(<<<<4>>, key, data>>, 64)

\* The left half of an HMAC as a private key.  SHA-512 leaves the range
\* 1..n-1 with probability below 2^-127; the stand-in never does.
LeftScalar(I) == 1 + ((I[1] * 256 + I[2]) % (GroupOrder - 1))

publicKey(node) == pointCompress(pointFromScalar(node.privateKey))

NETWORK == network

fromSeed(seed, net) ==
    LET I == HmacSha512(Utf8Encode(Ascii_Bitcoin_seed), seed)
    IN [privateKey |-> LeftScalar(I), chainCode |-> SubSeq(I, 33, 64),
        depth |-> 0, index |-> 0, network |-> net]

\* node.deriveHardened(index); a child key of zero moves on to the next index.
RECURSIVE deriveHardened(_, _)
deriveHardened(node, index) ==
    LET data == <<0>> \o Ser256(node.privateKey) \o <<128, 0, 0, index % 256>>
        I    == HmacSha512(node.chainCode, data)
        ki   == (LeftScalar(I) + node.privateKey) % GroupOrder
    IN IF ki = 0 THEN deriveHardened(node, index + 1)
       ELSE [privateKey |-> ki, chainCode |-> SubSeq(I, 33, 64),
             depth |-> node.depth + 1, index |-> index, network |-> node.network]

RECURSIVE derivePathFrom(_, _, _)
derivePathFrom(node, path, i) ==
    IF i > Len(path) THEN node
    ELSE derivePathFrom(deriveHardened(node, path[i]), path, i + 1)

derivePath(node, path) == derivePathFrom(node, path, 1)

neutered(node) ==
    [publicKey |-> publicKey(node), chainCode |-> node.chainCode,
     depth |-> node.depth, index |-> node.index, network |-> node.network]

\* Mutant: the tweak added to the key as it is, whatever its y.
tweakNoNegate(node, t) ==
    LET d2 == (node.privateKey + ScalarOf(t)) % GroupOrder
    IN IF d2 = 0 THEN Throw("Invalid tweaked private key!")
       ELSE Return([privateKey |-> d2, network |-> node.network])

\* node.tweak(t): the key is negated first when its point has the odd y.
tweak(node, t) ==
    LET d  == IF HasEvenY(pointFromScalar(node.privateKey))
              THEN node.privateKey ELSE privateNegate(node.privateKey)
        d2 == (d + ScalarOf(t)) % GroupOrder
    IN IF d2 = 0 THEN Throw("Invalid tweaked private key!")
       ELSE Return([privateKey |-> d2, network |-> node.network])

\* The name of a signature algorithm as text.
AlgName(alg) == IF alg = "schnorr" THEN <<115>> ELSE <<101>>

\* A signature by the private key d: the nonce and the challenge are hashes,
\* s = k + e * d, both k and d taken with the even y (BIP340's equation).
SignScalar(d, alg, message) ==
    LET P  == pointFromScalar(d)
        de == IF HasEvenY(P) THEN d ELSE privateNegate(d)
        k0 == LeftScalar(Hash(<<<<6>>, Utf8Encode(AlgName(alg)), <<d>>, message>>, 32))
        ke == IF HasEvenY(k0) THEN k0 ELSE privateNegate(k0)
        e  == ScalarOf(Hash(<<<<7>>, Utf8Encode(AlgName(alg)), <<XOf(k0)>>, <<XOf(P)>>, message>>, 32))
    IN [alg |-> alg, r |-> XOf(k0), s |-> (ke + e * de) % GroupOrder]

\* Whether signature is one by the key whose x-only public key is given.
Verify(xOnly, message, signature) ==
    LET P == liftX(xOnly)
        e == ScalarOf(Hash(<<<<7>>, Utf8Encode(AlgName(signature.alg)), <<signature.r>>, <<XOf(P)>>, message>>, 32))
        R == (signature.s + (GroupOrder - ((e * P) % GroupOrder))) % GroupOrder
    IN R # 0 /\ HasEvenY(R) /\ XOf(R) = signature.r

-----------------------------------------------------------------------------
(* bitcoinjs-lib payments.p2tr, key path only *)

Bech32Hrp(net) == IF net = "bitcoin" THEN "bc" ELSE "tb"

p2tr(internalPubkey, net) ==
    LET tweaked == xOnlyPointAddTweak(internalPubkey,
                                      taggedHash(Ascii_TapTweak, internalPubkey))
    IN IF ~tweaked.ok THEN [ok |-> FALSE]
       ELSE [ok |-> TRUE,
             pubkey  |-> tweaked.val.xOnlyPubkey,
             output  |-> <<81, 32>> \o tweaked.val.xOnlyPubkey,
             address |-> [hrp |-> Bech32Hrp(net), version |-> 1,
                          program |-> tweaked.val.xOnlyPubkey]]

\* bitcoin.address.toOutputScript of a witness address.
toOutputScript(address) ==
    <<80 + address.version, Len(address.program)>> \o address.program

-----------------------------------------------------------------------------
(* src/lib/crypto/wallet.ts *)

\* Mutant: the root key handed out as the account key.
getSignerAtRoot(mnemonic) ==
    LET seed == mnemonicToSeedSync(mnemonic)
        root == fromSeed(seed, NETWORK)
    IN Return([xprv |-> root, xpub |-> neutered(root), seed |-> seed, root |-> root])

getSigner(mnemonic) ==
    LET seed == mnemonicToSeedSync(mnemonic)
        root == fromSeed(seed, NETWORK)
    IN IF root = None THEN Throw("Failed to create root key from seed")
       ELSE LET xprv == derivePath(root, PATH)
                xpub == neutered(xprv)
            IN Return([xprv |-> xprv, xpub |-> xpub, seed |-> seed, root |-> root])

toTaprootSigner(s) ==
    LET rootKey == s.root
        childNode == derivePath(rootKey, PATH)
        childNodeXOnlyPubkey == toXOnly(publicKey(childNode))
        tweakedChildNode ==
            tweak(childNode, taggedHash(Ascii_TapTweak, childNodeXOnlyPubkey))
    IN IF ~tweakedChildNode.ok THEN tweakedChildNode
       ELSE Return([publicKey |-> publicKey(tweakedChildNode.val),
                    tweakedChildNode |-> tweakedChildNode.val])

\* The sign and signSchnorr closures of the object toTaprootSigner returns.
sign(ts, message) == SignScalar(ts.tweakedChildNode.privateKey, "ecdsa", message)

signSchnorr(ts, message) == SignScalar(ts.tweakedChildNode.privateKey, "schnorr", message)

\* Mutant: the internal key taken from the root key.
getWitnessUtxoOfRoot(utxo, s) ==
    LET rootXOnlyPubkey == toXOnly(publicKey(s.root))
        pay == p2tr(rootXOnlyPubkey, NETWORK)
    IN IF ~pay.ok THEN Throw("Failed to derive p2tr output script")
       ELSE Return([hash |-> utxo.txid, index |-> utxo.vout,
                    witnessUtxo |-> [script |-> pay.output, value |-> utxo.value],
                    tapInternalKey |-> rootXOnlyPubkey])

getWitnessUtxo(utxo, s) ==
    LET rootKey == s.root
        childNode == derivePath(rootKey, PATH)
        childNodeXOnlyPubkey == toXOnly(publicKey(childNode))
        pay == p2tr(childNodeXOnlyPubkey, NETWORK)
    IN IF ~pay.ok THEN Throw("Failed to derive p2tr output script")
       ELSE Return([hash |-> utxo.txid, index |-> utxo.vout,
                    witnessUtxo |-> [script |-> pay.output, value |-> utxo.value],
                    tapInternalKey |-> childNodeXOnlyPubkey])

firstTaprootAddress(s) ==
    LET rootKey == s.root
        childNode == derivePath(rootKey, PATH)
        childNodeXOnlyPubkey == toXOnly(publicKey(childNode))
        pay == p2tr(childNodeXOnlyPubkey, NETWORK)
    IN IF ~pay.ok THEN Throw("failed to derive p2tr address")
       ELSE Return(pay.address)

-----------------------------------------------------------------------------
(* Node's crypto: scrypt and AES-256-GCM *)

SaltLen == 16
KeyLen  == 32
IvLen   == 12
TagLen  == 16

scryptSync(password, salt, keylen) ==
    Hash(<<<<1>>, Utf8Encode(password), salt>>, keylen)

Keystream(key, iv, n) == Hash(<<<<2>>, key, iv>>, n)

\* cipher.update(plain) \o cipher.final()
GcmEncrypt(key, iv, plain) ==
    LET ks == Keystream(key, iv, Len(plain))
    IN [i \in 1..Len(plain) |-> (plain[i] + ks[i]) % 256] \o <<>>

\* decipher.update(data)
GcmDecrypt(key, iv, data) ==
    LET ks == Keystream(key, iv, Len(data))
    IN [i \in 1..Len(data) |-> (data[i] + 256 - ks[i]) % 256] \o <<>>

\* cipher.getAuthTag()
GcmTag(key, iv, data) == Hash(<<<<8>>, key, iv, data>>, TagLen)

\* The tag lengths decipher.setAuthTag accepts when createDecipheriv was
\* given no authTagLength.
ValidTagLengths == {4, 8, 12, 13, 14, 15, 16}

\* createDecipheriv, setAuthTag, update and final: the plaintext, or the
\* exception one of them raises.  final compares as many bytes of the tag
\* as setAuthTag was given.
GcmOpen(key, iv, tag, data) ==
    IF Len(iv) = 0 THEN Throw("Invalid initialization vector")
    ELSE IF Len(tag) \notin ValidTagLengths
    THEN Throw("Invalid authentication tag length")
    ELSE IF tag # Take(GcmTag(key, iv, data), Len(tag))
    THEN Throw("Unsupported state or unable to authenticate data")
    ELSE Return(GcmDecrypt(key, iv, data))

\* rnd: what crypto.randomBytes delivers, first the salt, then the iv (empty:
\* the random source threw).
encryptMnemonic(mnemonic, password, rnd) ==
    LET salt == rnd.salt
        key == scryptSync(password, salt, KeyLen)
        iv == rnd.iv
        ciphertext == GcmEncrypt(key, iv, Utf8Encode(mnemonic))
        tag == GcmTag(key, iv, ciphertext)
    IN IF salt = <<>> \/ iv = <<>> THEN Throw("randomBytes failed")
       ELSE Return([kdf |-> "scrypt", cipher |-> "aes-256-gcm",
                    salt |-> ToHex(salt), iv |-> ToHex(iv),
                    tag |-> ToHex(tag), data |-> ToHex(ciphertext)])

decryptWalletWithPassword(encrypted, password) ==
    LET salt == FromHex(encrypted.salt)
        key == scryptSync(password, salt, KeyLen)
        iv == FromHex(encrypted.iv)
        tag == FromHex(encrypted.tag)
        data == FromHex(encrypted.data)
        decrypted == GcmOpen(key, iv, tag, data)
    IN IF ~decrypted.ok THEN decrypted
       ELSE LET s == getSigner(Utf8Decode(decrypted.val))
            IN IF ~s.ok THEN s
               ELSE Return([mnemonic |-> Utf8Decode(decrypted.val), signer |-> s.val])

\* Resolves to what bip39 reports, and to false when bip39 throws.
\* Mutant: the catch branch answers true.
isValidMnemonicCatchTrue(mnemonic, fault) ==
    LET isValid == validateMnemonic(mnemonic, fault)
    IN [settled |-> "resolved", value |-> IF isValid.ok THEN isValid.val ELSE TRUE]

isValidMnemonic(mnemonic, fault) ==
    LET isValid == validateMnemonic(mnemonic, fault)
    IN IF isValid.ok THEN [settled |-> "resolved", value |-> isValid.val]
       ELSE [settled |-> "resolved", value |-> FALSE]

Undefined == <<-1>>     \* from_mnemonic left out

\* rnd: the entropy generateMnemonic draws (empty: the random source threw),
\* and the salt and iv encryptMnemonic draws.
generateWallet(opts, rnd) ==
    LET generated == generateMnemonic(128, rnd.entropy) IN
    IF opts.from_mnemonic = Undefined /\ ~generated.ok
    THEN [kind |-> "rejected", message |-> generated.err]   \* raised before the try
    ELSE LET mnemonic == IF opts.from_mnemonic = Undefined
                         THEN generated.val ELSE opts.from_mnemonic
             s == getSigner(mnemonic)
         IN IF ~s.ok
            THEN [kind |-> "BoxedError", errorType |-> "InvalidMnemonic",
                  message |-> s.err]
            ELSE LET encryptedMnemonic == encryptMnemonic(mnemonic, opts.password, rnd)
                     address == firstTaprootAddress(s.val)
                 IN IF ~encryptedMnemonic.ok
                    THEN [kind |-> "BoxedError", errorType |-> "InvalidMnemonic",
                          message |-> encryptedMnemonic.err]
                    ELSE IF ~address.ok
                    THEN [kind |-> "BoxedError", errorType |-> "InvalidMnemonic",
                          message |-> address.err]
                    ELSE [kind |-> "BoxedSuccess",
                          data |-> [mnemonic |-> mnemonic,
                                    signer |-> s.val,
                                    walletJson |->
                                      [encryptedMnemonic |-> encryptedMnemonic.val,
                                       address |-> address.val]]]

-----------------------------------------------------------------------------
(* Inputs *)

MaxRandom == 2      \* how many outcomes each crypto.randomBytes call has
M12   == Join(Repeat(Ascii_zoo, 11) \o <<Ascii_wrong>>)      \* a BIP39 test vector
M12x  == Join(Repeat(Ascii_zoo, 12))                         \* its checksum broken
MCafe == <<99, 97, 102, 233>>                                \* not of the wordlist
MEmpty == <<>>

Mnemonics == {M12, MCafe, MEmpty}

Passwords == {<<>>, <<112, 119>>, <<112, 233>>}

RandomBytes(n) == {[i \in 1..n |-> (37 * k + 11 * i) % 256] : k \in 1..MaxRandom}

Networks == {"bitcoin", "testnet"}

-----------------------------------------------------------------------------
(* The steps of the etching wizard *)

steps == <<"divisibility", "premine", "dune", "symbol", "turbo", "includeTerms",
           "amount", "cap", "heightMin", "heightMax", "offsetMin", "offsetMax",
           "includePrice", "priceAmount", "pricePayTo">>

CipherIdle == enc = None /\ encIn = None /\ dec = None /\ decIn = None

WalletIdle ==
    gw = None /\ gwIn = None /\ unlocked = None /\ valid = None /\ validIn = None

KeysIdle == signer = [mnemonic |-> None, res |-> None] /\ addr = None /\ wit = None /\ tsigner = None /\ sig = None

PureIdle == calls = [c \in Callers |-> [req |-> None, rnd |-> None, res |-> None]]

EtchStart ==
    /\ idx = 0
    /\ state = <<>>
    /\ pc = "loop"
    /\ answer = None
    /\ asked = "none"
    /\ lastAns = [includeTerms |-> None, includePrice |-> None]
    /\ etching = None

-----------------------------------------------------------------------------
(* The stored wallet: encryption, alteration at rest, decryption.  The      *)
(* arguments of the encryption and what randomBytes delivers are drawn at   *)
(* the start.                                                               *)

HexFields == {"salt", "iv", "tag", "data"}

Alterations == {"upper", "flip", "truncate", "junk", "clear"}

Upper(c) == IF HexVal(c) >= 10 THEN UpperHex[HexVal(c) - 9] ELSE c

\* What an alteration makes of a hex string.
Altered(hex, how) ==
    CASE how = "upper"    -> [j \in 1..Len(hex) |-> Upper(hex[j])] \o <<>>
      [] how = "flip"     -> [j \in 1..Len(hex) |->
                                IF j = 1 THEN (IF hex[j] = "0" THEN "1" ELSE "0")
                                ELSE hex[j]] \o <<>>
      [] how = "truncate" -> Take(hex, 8)
      [] how = "junk"     -> hex \o <<"z", "z">>
      [] how = "clear"    -> <<>>

InitCipher ==
    /\ network \in Networks
    /\ enc = None /\ dec = None /\ decIn = None
    /\ encIn \in [mnemonic : Mnemonics, password : Passwords,
                  salt : RandomBytes(SaltLen), iv : RandomBytes(IvLen),
                  altered : {"no"}]
    /\ WalletIdle /\ KeysIdle /\ PureIdle /\ EtchStart

DoEncrypt ==
    LET e == encryptMnemonic(encIn.mnemonic, encIn.password,
                             [salt |-> encIn.salt, iv |-> encIn.iv]) IN
    /\ enc = None
    /\ e.ok
    /\ enc' = e.val
    /\ UNCHANGED <<network, encIn, dec, decIn, walletVars, keyVars, calls, etchVars>>

\* The stored wallet is altered once, in one field; "bytes" when the bytes
\* the field decodes to change, "text" when only its spelling does.
DoAlter(field, how) ==
    /\ enc # None /\ dec = None
    /\ encIn.altered = "no"
    /\ Altered(enc[field], how) # enc[field]
    /\ enc' = [enc EXCEPT ![field] = Altered(@, how)]
    /\ encIn' = [encIn EXCEPT !.altered =
                    IF FromHex(Altered(enc[field], how)) # FromHex(enc[field])
                    THEN "bytes" ELSE "text"]
    /\ UNCHANGED <<network, dec, decIn, walletVars, keyVars, calls, etchVars>>

DoDecrypt(password) ==
    /\ enc # None /\ dec = None
    /\ dec' = decryptWalletWithPassword(enc, password)
    /\ decIn' = [password |-> password, tag |-> enc.tag]
    /\ UNCHANGED <<network, enc, encIn, walletVars, keyVars, calls, etchVars>>

NextCipher ==
    \/ DoEncrypt
    \/ \E f \in HexFields, how \in Alterations : DoAlter(f, how)
    \/ \E p \in Passwords : DoDecrypt(p)

SpecCipher == InitCipher /\ [][NextCipher]_vars

\* The exceptions createDecipheriv, setAuthTag and final raise: the source
\* names no error class, every one of them is the authentication failure.
AuthenticationError(r) ==
    /\ ~r.ok
    /\ r.err \in {"Unsupported state or unable to authenticate data",
                  "Invalid authentication tag length",
                  "Invalid initialization vector"}

(* C2: decrypting what encryptMnemonic made, unaltered, with the password  *)
(* it was made with succeeds and returns the mnemonic that was encrypted,  *)
(* whatever salt and nonce were drawn.                                     *)
C2_RoundTrip ==
    (dec # None /\ encIn.altered = "no" /\ decIn.password = encIn.password)
        => (dec.ok /\ dec.val.mnemonic = encIn.mnemonic)

C2_Witness ==
    /\ dec # None /\ encIn.altered = "no" /\ decIn.password = encIn.password
    /\ dec.ok /\ encIn.mnemonic = MCafe /\ encIn.password = <<112, 233>>

(* C1: a decryption with another password than the one of the encryption,  *)
(* or of a stored wallet one of whose salt, iv, tag and data decodes to     *)
(* other bytes than were written, fails with the authentication error and   *)
(* returns no DecryptedWallet.                                              *)
C1_Authentication ==
    (dec # None /\ (decIn.password # encIn.password \/ encIn.altered = "bytes"))
        => AuthenticationError(dec)

-----------------------------------------------------------------------------
(* The wallet assembler and the validator.  The options of generateWallet   *)
(* and what the random source delivers are drawn at the start.              *)

Entropies == {Repeat(0, 16), Repeat(255, 16)}

WalletInputs ==
    LET rnds(entropies) == [entropy : entropies,
                            salt : RandomBytes(SaltLen) \cup {<<>>},
                            iv : RandomBytes(IvLen)]
    IN [opts : [from_mnemonic : {M12, M12x, MCafe, MEmpty}, password : Passwords],
        rnd : rnds({<<>>})]
       \cup
       [opts : [from_mnemonic : {Undefined}, password : Passwords],
        rnd : rnds(Entropies \cup {<<>>})]

InitWallet ==
    /\ network \in Networks
    /\ gwIn \in WalletInputs
    /\ gw = None /\ unlocked = None /\ valid = None /\ validIn = None
    /\ CipherIdle /\ KeysIdle /\ PureIdle /\ EtchStart

DoGenerateWallet ==
    /\ gw = None
    /\ gw' = generateWallet(gwIn.opts, gwIn.rnd)
    /\ UNCHANGED <<network, cipherVars, gwIn, unlocked, valid, validIn,
                   keyVars, calls, etchVars>>

\* The saved wallet is unlocked with a password.
DoUnlock(password) ==
    /\ gw # None /\ gw.kind = "BoxedSuccess"
    /\ unlocked = None
    /\ unlocked' = [password |-> password,
                    res |-> decryptWalletWithPassword(
                                gw.data.walletJson.encryptedMnemonic, password)]
    /\ UNCHANGED <<network, cipherVars, gw, gwIn, valid, validIn,
                   keyVars, calls, etchVars>>

\* The mnemonic the user supplied is validated; fault: bip39 throws.
DoIsValidMnemonic(fault) ==
    /\ valid = None
    /\ gwIn.opts.from_mnemonic # Undefined
    /\ valid' = isValidMnemonic(gwIn.opts.from_mnemonic, fault)
    /\ validIn' = [candidate |-> gwIn.opts.from_mnemonic, fault |-> fault]
    /\ UNCHANGED <<network, cipherVars, gw, gwIn, unlocked, keyVars, calls, etchVars>>

NextWallet ==
    \/ DoGenerateWallet
    \/ \E p \in Passwords : DoUnlock(p)
    \/ \E fault \in BOOLEAN : DoIsValidMnemonic(fault)

SpecWallet == InitWallet /\ [][NextWallet]_vars

WordCount(mnemonic) == Len(Split(mnemonic))

(* C3: generateWallet never rejects; a failure of any of its steps gives a  *)
(* BoxedError tagged InvalidMnemonic with a message; a success bundle holds *)
(* a valid mnemonic.                                                        *)
C3_NeverThrows ==
    gw # None =>
        /\ gw.kind \in {"BoxedSuccess", "BoxedError"}
        /\ gw.kind = "BoxedError" =>
              (gw.errorType = "InvalidMnemonic" /\ gw.message # "")
        /\ gw.kind = "BoxedSuccess" => mnemonicToEntropy(gw.data.mnemonic).ok

(* C5: a success bundle is consistent: its mnemonic is the supplied one or  *)
(* the generated one of 12 words; its signer is the one of that mnemonic    *)
(* (the seed of the mnemonic, the root of the seed, the account key at PATH *)
(* and its neutered key); its address is the taproot address of the account *)
(* key; unlocking the saved wallet with the password recovers the mnemonic  *)
(* and the signer.                                                          *)
C5_Bundle ==
    (gw # None /\ gw.kind = "BoxedSuccess") =>
        LET b == gw.data
            from == gwIn.opts.from_mnemonic
        IN /\ from # Undefined => b.mnemonic = from
           /\ from = Undefined =>
                 /\ b.mnemonic = entropyToMnemonic(gwIn.rnd.entropy)
                 /\ WordCount(b.mnemonic) = 12
           /\ b.signer.seed = mnemonicToSeedSync(b.mnemonic)
           /\ b.signer.root = fromSeed(b.signer.seed, network)
           /\ b.signer.xprv = derivePath(b.signer.root, PATH)
           /\ b.signer.xpub = neutered(b.signer.xprv)
           /\ LET pay == p2tr(toXOnly(b.signer.xpub.publicKey), network)
              IN pay.ok /\ b.walletJson.address = pay.address
           /\ (unlocked # None /\ unlocked.password = gwIn.opts.password) =>
                 /\ unlocked.res.ok
                 /\ unlocked.res.val.mnemonic = b.mnemonic
                 /\ unlocked.res.val.signer = b.signer

C5_Witness ==
    /\ gw # None /\ gw.kind = "BoxedSuccess"
    /\ gwIn.opts.from_mnemonic = Undefined
    /\ unlocked # None /\ unlocked.password = gwIn.opts.password /\ unlocked.res.ok

(* C7: isValidMnemonic always resolves, to a boolean, and to true only when *)
(* bip39 reports the candidate valid: it did not throw, and the candidate   *)
(* has a supported word count, words of the wordlist and the right checksum.*)
C7_Validator ==
    valid # None =>
        /\ valid.settled = "resolved"
        /\ valid.value \in BOOLEAN
        /\ valid.value => (~validIn.fault /\ mnemonicToEntropy(validIn.candidate).ok)

C7_Witness == valid # None /\ ~validIn.fault /\ valid.value = TRUE /\ validIn.candidate = M12

-----------------------------------------------------------------------------
(* The key operations on the signer of one mnemonic.                        *)

MaxSeeds == 6       \* how many one-letter phrases are tried besides Mnemonics

KeyMnemonics == Mnemonics \cup {<<96 + k>> : k \in 1..MaxSeeds}

Utxos == {[txid |-> "aa", vout |-> 0, value |-> 546],
          [txid |-> "bb", vout |-> 1, value |-> 100000]}

Messages == {<<1>>, <<2, 3>>}

InitKeys ==
    /\ network \in Networks
    /\ \E m \in KeyMnemonics : signer = [mnemonic |-> m, res |-> None]
    /\ addr = None /\ wit = None /\ tsigner = None /\ sig = None
    /\ CipherIdle /\ WalletIdle /\ PureIdle /\ EtchStart

HasSigner == signer.res # None /\ signer.res.ok

DoGetSigner ==
    /\ signer.res = None
    /\ signer' = [signer EXCEPT !.res = getSigner(signer.mnemonic)]
    /\ UNCHANGED <<network, cipherVars, walletVars, addr, wit, tsigner, sig,
                   calls, etchVars>>

DoFirstTaprootAddress ==
    /\ HasSigner /\ addr = None
    /\ addr' = firstTaprootAddress(signer.res.val)
    /\ UNCHANGED <<network, cipherVars, walletVars, signer, wit, tsigner, sig,
                   calls, etchVars>>

DoGetWitnessUtxo(utxo) ==
    /\ HasSigner /\ wit = None
    /\ wit' = [utxo |-> utxo, res |-> getWitnessUtxo(utxo, signer.res.val)]
    /\ UNCHANGED <<network, cipherVars, walletVars, signer, addr, tsigner, sig,
                   calls, etchVars>>

DoToTaprootSigner ==
    /\ HasSigner /\ tsigner = None
    /\ tsigner' = toTaprootSigner(signer.res.val)
    /\ UNCHANGED <<network, cipherVars, walletVars, signer, addr, wit, sig,
                   calls, etchVars>>

\* One of the two signing closures is called on a message.
DoSign(alg, message) ==
    /\ tsigner # None /\ tsigner.ok /\ sig = None
    /\ sig' = [alg |-> alg, message |-> message,
               signature |-> IF alg = "schnorr"
                             THEN signSchnorr(tsigner.val, message)
                             ELSE sign(tsigner.val, message)]
    /\ UNCHANGED <<network, cipherVars, walletVars, signer, addr, wit, tsigner,
                   calls, etchVars>>

NextKeys ==
    \/ DoGetSigner
    \/ DoFirstTaprootAddress
    \/ \E utxo \in Utxos : DoGetWitnessUtxo(utxo)
    \/ DoToTaprootSigner
    \/ \E alg \in {"ecdsa", "schnorr"}, message \in Messages : DoSign(alg, message)

SpecKeys == InitKeys /\ [][NextKeys]_vars

\* The x-only public key of the account key of a signer.
AccountXOnly(s) == toXOnly(s.xpub.publicKey)

(* C4: the tapInternalKey of getWitnessUtxo is the x-only key the address   *)
(* of firstTaprootAddress is built from, the script is the output script of *)
(* that address, and hash, index and value are those of the utxo.           *)
C4_CrossConsistency ==
    (wit # None /\ addr # None) =>
        /\ wit.res.ok = addr.ok
        /\ wit.res.ok =>
              LET w   == wit.res.val
                  pay == p2tr(w.tapInternalKey, network)
              IN /\ w.tapInternalKey = AccountXOnly(signer.res.val)
                 /\ Len(w.tapInternalKey) = 32
                 /\ pay.ok /\ addr.val = pay.address
                 /\ w.witnessUtxo.script = toOutputScript(addr.val)
                 /\ w.hash = wit.utxo.txid
                 /\ w.index = wit.utxo.vout
                 /\ w.witnessUtxo.value = wit.utxo.value

C4_Witness ==
    /\ wit # None /\ addr # None /\ wit.res.ok /\ addr.ok
    /\ wit.utxo.vout = 1
    /\ ~HasEvenY(signer.res.val.xprv.privateKey)

\* The taproot output key of the account key, computed on the public side.
OutputKey(s) == p2tr(AccountXOnly(s), network).pubkey

SignaturesVerify ==
    sig # None => Verify(toXOnly(tsigner.val.publicKey), sig.message, sig.signature)

(* C6 as stated: the public key toTaprootSigner exposes is the 32-byte      *)
(* x-only output key, and its signatures are made with the tweaked scalar.  *)
C6_XOnlyOutputKey ==
    (tsigner # None /\ tsigner.ok) =>
        /\ Len(tsigner.val.publicKey) = 32
        /\ tsigner.val.publicKey = OutputKey(signer.res.val)
        /\ SignaturesVerify

(* C6 amended: the public key toTaprootSigner exposes is the 33-byte        *)
(* compressed key whose x coordinate is the output key of the account key   *)
(* tweaked once with the TapTweak hash of its x-only key; the private key   *)
(* it signs with is the one of that output key, so that what sign and       *)
(* signSchnorr return verifies under the output key.                        *)
C6_CompressedOutputKey ==
    (tsigner # None /\ tsigner.ok) =>
        /\ Len(tsigner.val.publicKey) = 33
        /\ tsigner.val.publicKey[1] \in {2, 3}
        /\ toXOnly(tsigner.val.publicKey) = OutputKey(signer.res.val)
        /\ XOf(pointFromScalar(tsigner.val.tweakedChildNode.privateKey))
              = liftX(OutputKey(signer.res.val))
        /\ SignaturesVerify
        /\ sig # None =>
              sig.signature = SignScalar(tsigner.val.tweakedChildNode.privateKey,
                                         sig.alg, sig.message)

C6_Witness ==
    /\ tsigner # None /\ tsigner.ok /\ sig # None /\ sig.alg = "schnorr"
    /\ ~HasEvenY(signer.res.val.xprv.privateKey)
    /\ tsigner.val.tweakedChildNode.privateKey # signer.res.val.xprv.privateKey

-----------------------------------------------------------------------------
(* Two tasks, each invoking one operation of the module.  What each asks    *)
(* for, and what randomBytes delivers to it, are drawn at the start.        *)

PureMnemonics == {M12, MCafe}

PurePasswords == {<<112, 119>>, <<112, 233>>}

ARandom == [salt |-> CHOOSE x \in RandomBytes(SaltLen) : TRUE,
            iv   |-> CHOOSE x \in RandomBytes(IvLen) : TRUE]

\* The signers handed to the operations that take one: those of two seeds,
\* with the account key at m/86'/0'/0'.
SignerArgs ==
    {LET seed == Repeat(b, 64)
         root == fromSeed(seed, network)
         xprv == derivePath(root, <<86, 0, 0>>)
     IN [xprv |-> xprv, xpub |-> neutered(xprv), seed |-> seed, root |-> root]
     : b \in {1, 2}}

Requests ==
    [op : {"getSigner"}, mnemonic : PureMnemonics]
    \cup [op : {"toTaprootSigner", "firstTaprootAddress"},
          signer : SignerArgs]
    \cup [op : {"getWitnessUtxo"}, utxo : Utxos, signer : SignerArgs]
    \cup [op : {"encryptMnemonic"}, mnemonic : PureMnemonics, password : {<<112, 233>>}]
    \cup [op : {"decryptWalletWithPassword"},
          encrypted : {encryptMnemonic(MCafe, <<112, 119>>, ARandom).val},
          password : PurePasswords]

Draws(req) ==
    IF req.op = "encryptMnemonic"
    THEN [salt : RandomBytes(SaltLen), iv : RandomBytes(IvLen)]
    ELSE {None}

InitPure ==
    /\ network \in Networks
    /\ calls \in [Callers -> UNION {[req : {r}, rnd : Draws(r), res : {None}]
                                      : r \in Requests}]
    /\ CipherIdle /\ WalletIdle /\ KeysIdle /\ EtchStart

Apply(req, rnd) ==
    CASE req.op = "getSigner" -> getSigner(req.mnemonic)
      [] req.op = "toTaprootSigner" -> toTaprootSigner(req.signer)
      [] req.op = "firstTaprootAddress" -> firstTaprootAddress(req.signer)
      [] req.op = "getWitnessUtxo" -> getWitnessUtxo(req.utxo, req.signer)
      [] req.op = "encryptMnemonic" -> encryptMnemonic(req.mnemonic, req.password, rnd)
      [] req.op = "decryptWalletWithPassword" ->
             decryptWalletWithPassword(req.encrypted, req.password)

Invoke(c) ==
    /\ calls[c].res = None
    /\ calls' = [calls EXCEPT ![c].res = Apply(calls[c].req, calls[c].rnd)]
    /\ UNCHANGED <<network, cipherVars, walletVars, keyVars, etchVars>>

NextPure == \E c \in Callers : Invoke(c)

SpecPure == InitPure /\ [][NextPure]_vars

Returned(c) == calls[c].res # None

SameArguments(c, d) == Returned(c) /\ Returned(d) /\ calls[c].req = calls[d].req

Opens(r, password) == decryptWalletWithPassword(r.val, password)

-----------------------------------------------------------------------------
(* The etching wizard: promptLoop, getQuestion and the etching run builds.  *)
(* JavaScript values are records tagged with their type; the object state   *)
(* is a function from the keys it has.                                      *)

JsString(s)  == [t |-> "string", s |-> s]
JsNumber(n)  == [t |-> "number", n |-> n]
JsBoolean(b) == [t |-> "boolean", b |-> b]
JsUndefined  == [t |-> "undefined"]
JsNull       == [t |-> "null"]
JsNaN        == [t |-> "number", nan |-> TRUE]

Back == JsString("/back")

Truthy(v) ==
    CASE v.t = "boolean" -> v.b
      [] v.t = "string"  -> v.s # ""
      [] v.t = "number"  -> v # JsNaN /\ v # JsNumber(0)
      [] OTHER           -> FALSE

\* The decimal texts the user types, with their values.
Numerals == ("7" :> 7) @@ ("0" :> 0)

\* Number(v)
Number(v) ==
    CASE v.t = "number"    -> v
      [] v.t = "string"    -> IF v.s = "" THEN JsNumber(0)
                              ELSE IF v.s \in DOMAIN Numerals THEN JsNumber(Numerals[v.s])
                              ELSE JsNaN
      [] v.t = "boolean"   -> JsNumber(IF v.b THEN 1 ELSE 0)
      [] v.t = "null"      -> JsNumber(0)
      [] OTHER             -> JsNaN

\* obj[key], delete obj[key] and obj[key] = v
Get(obj, key) == IF key \in DOMAIN obj THEN obj[key] ELSE JsUndefined

Delete(obj, key) == [k \in DOMAIN obj \ {key} |-> obj[k]]

Put(obj, key, v) == [k \in DOMAIN obj \cup {key} |-> IF k = key THEN v ELSE obj[k]]

\* steps.indexOf(step)
indexOf(step) == (CHOOSE i \in 1..Len(steps) : steps[i] = step) - 1

QuestionType(step) ==
    CASE step = "divisibility" -> "number"
      [] step \in {"turbo", "includeTerms", "includePrice"} -> "confirm"
      [] OTHER -> "input"

TermSteps == {"amount", "cap", "heightMin", "heightMax", "offsetMin", "offsetMax"}

PriceSteps == {"priceAmount", "pricePayTo"}

\* Mutant: no question has a when.
getQuestionUngated(step, st) == [type |-> QuestionType(step), name |-> step, when |-> TRUE]

\* The question of a step; when is what its when() returns on st.
getQuestion(step, st) ==
    [type |-> QuestionType(step), name |-> step,
     when |-> CASE step \in TermSteps \cup {"includePrice"} ->
                       Truthy(Get(st, "includeTerms"))
                [] step \in PriceSteps ->
                       Truthy(Get(st, "includeTerms")) /\ Truthy(Get(st, "includePrice"))
                [] OTHER -> TRUE]

\* What the user may type at an input question.
Typed(step) ==
    CASE step = "symbol" -> {"/back", "$"}
      [] step \in {"heightMin", "heightMax", "offsetMin", "offsetMax"} -> {"/back", "", "7"}
      [] OTHER -> {"/back", "7"}

\* inquirer.prompt: the values answer[q.name] may have.  A question whose
\* when is false is not asked; a number is asked until validate accepts it;
\* a confirm gives a boolean.
prompt(q) ==
    IF ~q.when THEN {JsUndefined}
    ELSE CASE q.type = "number"  -> {JsNumber(0), JsNumber(8)}
           [] q.type = "confirm" -> {JsBoolean(TRUE), JsBoolean(FALSE)}
           [] OTHER              -> {JsString(s) : s \in Typed(q.name)}

\* Mutant: a refused includeTerms leaves the index where it is.
NextIndexStay(step, ans, i) ==
    IF step = "includeTerms" /\ ~Truthy(ans) THEN indexOf("includeTerms")
    ELSE IF step = "includePrice" /\ ~Truthy(ans) THEN indexOf("pricePayTo") + 1
    ELSE i + 1

\* The dynamic flow: the index after the answer ans to step at index i.
NextIndex(step, ans, i) ==
    IF step = "includeTerms" /\ ~Truthy(ans) THEN indexOf("includePrice")
    ELSE IF step = "includePrice" /\ ~Truthy(ans) THEN indexOf("pricePayTo") + 1
    ELSE i + 1

InitEtch ==
    /\ network \in Networks
    /\ CipherIdle /\ WalletIdle /\ KeysIdle /\ PureIdle /\ EtchStart

\* One iteration of the while loop of promptLoop.
Prompt ==
    /\ pc = "loop" /\ idx < Len(steps)
    /\ LET step == steps[idx + 1]
           q    == getQuestion(step, state)
       IN \E a \in prompt(q) :
            /\ answer' = a
            /\ asked' = IF q.when THEN step ELSE "none"
            /\ IF a = Back
               THEN /\ IF idx = 0
                       THEN idx' = idx /\ state' = state
                       ELSE idx' = idx - 1 /\ state' = Delete(state, step)
                    /\ lastAns' = lastAns
               ELSE /\ state' = Put(state, step, a)
                    /\ idx' = NextIndex(step, a, idx)
                    /\ lastAns' = IF q.when /\ step \in DOMAIN lastAns
                                  THEN [lastAns EXCEPT ![step] = a] ELSE lastAns
    /\ UNCHANGED <<network, cipherVars, walletVars, keyVars, calls, pc, etching>>

NumberOrNull(v) == IF Truthy(v) THEN Number(v) ELSE JsNull

\* promptLoop returns state and run builds the etching from it.
Build ==
    /\ pc = "loop" /\ idx >= Len(steps)
    /\ LET answers == state
           terms == [amount |-> Get(answers, "amount"),
                     cap    |-> Get(answers, "cap"),
                     height |-> <<NumberOrNull(Get(answers, "heightMin")),
                                  NumberOrNull(Get(answers, "heightMax"))>>,
                     offset |-> <<NumberOrNull(Get(answers, "offsetMin")),
                                  NumberOrNull(Get(answers, "offsetMax"))>>]
           price == [amount |-> Get(answers, "priceAmount"),
                     pay_to |-> Get(answers, "pricePayTo")]
       IN etching' =
            [divisibility |-> Number(Get(answers, "divisibility")),
             premine |-> Get(answers, "premine"),
             dune    |-> Get(answers, "dune"),
             symbol  |-> Get(answers, "symbol"),
             turbo   |-> Get(answers, "turbo"),
             terms   |-> IF ~Truthy(Get(answers, "includeTerms")) THEN JsNull
                         ELSE IF Truthy(Get(answers, "includePrice"))
                              THEN [k \in {"amount", "cap", "height", "offset", "price"} |->
                                       IF k = "price" THEN price ELSE terms[k]]
                              ELSE terms]
    /\ pc' = "built"
    /\ UNCHANGED <<network, cipherVars, walletVars, keyVars, calls,
                   idx, state, answer, asked, lastAns>>

NextEtch == Prompt \/ Build

SpecEtch == InitEtch /\ [][NextEtch]_vars

\* The user keeps answering and run goes on once the loop has ended.
FairSpecEtch == SpecEtch /\ WF_vars(Prompt) /\ WF_vars(Build)

Refused(step) == lastAns[step] = JsBoolean(FALSE)

Accepted(step) == lastAns[step] = JsBoolean(TRUE)

(* C9: once the last answer to includeTerms is no, no term step, nor        *)
(* includePrice nor a price step, is prompted; once the last answer to      *)
(* includePrice is no, no price step is prompted; the etching run builds    *)
(* has terms null exactly when the last answer to includeTerms is no, and   *)
(* terms has a price exactly when the last answers to includeTerms and to   *)
(* includePrice are both yes.                                               *)
C9_Gating ==
    /\ Refused("includeTerms") =>
          asked \notin TermSteps \cup {"includePrice"} \cup PriceSteps
    /\ Refused("includePrice") => asked \notin PriceSteps
    /\ pc = "built" =>
          /\ etching.terms = JsNull <=> Refused("includeTerms")
          /\ (etching.terms # JsNull /\ "price" \in DOMAIN etching.terms)
                <=> (Accepted("includeTerms") /\ Accepted("includePrice"))

C9_Witness ==
    /\ pc = "built" /\ Refused("includeTerms") /\ asked = "none"
    /\ etching.terms = JsNull

\* An iteration of the loop has just taken the answer a.
Answered(a) == Prompt /\ answer' = a

(* C10: idx stays within 0..steps.length; "/back" at idx 0 leaves idx and   *)
(* state as they are; "/back" at idx > 0 deletes the entry of the current   *)
(* step only and takes 1 from idx; any other answer makes idx larger; the   *)
(* loop ends if "/back" is answered finitely often.                         *)
C10_PromptLoop ==
    /\ [](idx \in 0..Len(steps))
    /\ [][(Answered(Back) /\ idx = 0) => (idx' = idx /\ state' = state)]_vars
    /\ [][(Answered(Back) /\ idx > 0) =>
             /\ idx' = idx - 1
             /\ state' = Delete(state, steps[idx + 1])
             /\ \A k \in DOMAIN state \ {steps[idx + 1]} :
                    k \in DOMAIN state' /\ state'[k] = state[k]]_vars
    /\ [][(Prompt /\ ~Answered(Back)) => idx' > idx]_vars
    /\ (<>[][~Answered(Back)]_vars) => <>(idx = Len(steps))

C10_Witness == pc = "loop" /\ answer = Back /\ idx = indexOf("includeTerms") /\ asked = "amount"

=============================================================================
